---- MODULE Spec2Model ----
(***************************************************************************)
(* Restaurant quality-audit tracker (Django app "core"): the score         *)
(* aggregation and grading engine of core/models.py, the signal receivers  *)
(* of core/signals.py and the request handlers of core/views.py.           *)
(*                                                                         *)
(* Units.  Decimal columns with decimal_places=2 are integers in           *)
(* hundredths (10.00 points = 1000, 86.67 % = 8667).  A score parsed by    *)
(* float() from the request is a record [nan, v] with v in thousandths, so *)
(* that the rounding done when the float is written to a DecimalField is   *)
(* part of the model.  The catalogue's section totals fit the width of the *)
(* DecimalFields (max_digits 6 and 8).                                     *)
(*                                                                         *)
(* The four tables hold the committed rows.  txn holds, for each worker    *)
(* serving a save_response request step by step, its position and the rows *)
(* its open transaction has written; the store is read committed with row  *)
(* locks, the isolation Django's backends default to.                      *)
(***************************************************************************)
EXTENDS Integers, Sequences, FiniteSets, TLC

VARIABLES audits, auditSections, responses, correctiveActions, now, last, txn

vars == <<audits, auditSections, responses, correctiveActions, now, last, txn>>

(***************************************************************************)
(* Bounds                                                                  *)
(***************************************************************************)
\* span of the scores (hundredths of a point) saved under GradeSpec
GradeSpan == 210
\* largest value of the clock read by timezone.now() under PolicySpec
MaxClock == 3

(***************************************************************************)
(* Reference data (Restaurant, Section, Question rows) and users           *)
(***************************************************************************)
Audits == {"A1", "A2", "A3", "A4", "A5"}
Sections == {"S1", "S2"}
Questions == {"Q1", "Q2", "Q3"}
Users == {"alice", "bob"}

\* Question.section
QSection(q) == IF q = "Q3" THEN "S2" ELSE "S1"
\* Question.possible_points, in hundredths
QPossible(q) == CASE q = "Q1" -> 100 [] q = "Q2" -> 500 [] OTHER -> 1000
\* Question.is_critical
QCritical(q) == q = "Q1"

\* Audit.restaurant, Audit.audit_date, Audit.auditor_name: set at creation
AuditRestaurant(a) == IF a = "A5" THEN "R2" ELSE "R1"
AuditDate(a) == CASE a \in {"A1", "A5"} -> 1 [] a = "A2" -> 2 [] OTHER -> 3
AuditAuditor(a) == IF a \in {"A1", "A3"} THEN "alice" ELSE "bob"
\* user.is_superuser or user.role == 'admin'
IsAdmin(u) == u = "bob"

Slots == Audits \X Sections \X Questions
SecKeys == Audits \X Sections


(***************************************************************************)
(* Row shapes                                                              *)
(***************************************************************************)
\* no Audit row with this id
NoAudit == [exists |-> FALSE, totalScored |-> 0, totalPossible |-> 0,
            totalPercentage |-> 0, grade |-> "", hasCriticalFailure |-> FALSE,
            isSubmitted |-> FALSE, submittedAt |-> 0,
            previousAuditDate |-> 0, previousAuditScore |-> 0,
            previousAuditor |-> ""]
\* Audit.objects.create(...): the column defaults
NewAudit == [NoAudit EXCEPT !.exists = TRUE]

\* no AuditSection row for this (audit, section)
NoAuditSection == [exists |-> FALSE, scoredPoints |-> 0, possiblePoints |-> 0,
                   sectionPercentage |-> 0, hasCriticalFailure |-> FALSE]
\* AuditSection.objects.create(audit=, section=): the column defaults
NewAuditSection == [NoAuditSection EXCEPT !.exists = TRUE]

\* no AuditQuestionResponse row for this (audit section, question)
NoResponse == [exists |-> FALSE, scoredPoints |-> 0, comments |-> "",
               needsCorrectiveAction |-> FALSE]

\* the database: one record of the four tables
Db(a, s, r, c) == [audits |-> a, auditSections |-> s, responses |-> r,
                   correctiveActions |-> c]

(***************************************************************************)
(* Arithmetic                                                              *)
(***************************************************************************)
\* n / d rounded to the nearest integer, ties to even (decimal's default
\* ROUND_HALF_EVEN), for n >= 0 and d > 0
RoundHalfEven(n, d) ==
    LET q == n \div d
        r == n % d
    IN  IF 2 * r < d THEN q
        ELSE IF 2 * r > d THEN q + 1
        ELSE IF q % 2 = 0 THEN q ELSE q + 1

\* the percentage truncated instead of rounded
Quantize_floor(scored, possible) == (scored * 10000) \div possible

\* (scored / possible * Decimal('100')).quantize(Decimal('0.01')), the
\* result in hundredths of a percent
Quantize(scored, possible) == RoundHalfEven(scored * 10000, possible)

\* a float written to a DecimalField(decimal_places=2): thousandths to
\* hundredths
ToDecimalField(v) == RoundHalfEven(v, 10)

RECURSIVE SumOver(_, _)
\* sum of f[x] over the finite set S
SumOver(S, f) ==
    IF S = {} THEN 0
    ELSE LET x == CHOOSE y \in S : TRUE
         IN  f[x] + SumOver(S \ {x}, f)

(***************************************************************************)
(* Audit.calculate_normal_grade and Audit.calculate_totals                 *)
(***************************************************************************)
\* calculate_normal_grade with strict comparisons at the boundaries
calculate_normal_grade_strict(percentage) ==
    IF percentage > 9600 THEN "A"
    ELSE IF percentage > 9000 THEN "B"
    ELSE IF percentage > 8000 THEN "C"
    ELSE "F"

\* grade bucket of a percentage given in hundredths of a percent
calculate_normal_grade(percentage) ==
    IF percentage >= 9600 THEN "A"
    ELSE IF percentage >= 9000 THEN "B"
    ELSE IF percentage >= 8000 THEN "C"
    ELSE "F"

\* self.auditsection_set.all()
SectionsOf(db, a) == {s \in Sections : db.auditSections[<<a, s>>].exists}

\* the audit flag taken with all() in place of any()
AuditCritical_all(db, a) ==
    \A s \in SectionsOf(db, a) : db.auditSections[<<a, s>>].hasCriticalFailure

\* any(section.has_critical_failure for section in sections)
AuditCritical(db, a) ==
    \E s \in SectionsOf(db, a) : db.auditSections[<<a, s>>].hasCriticalFailure

\* the grade without the critical-failure override
Grade_no_override(critical, pct) == calculate_normal_grade(pct)

\* the grade from the critical flag and the percentage
Grade(critical, pct) ==
    IF critical THEN "F" ELSE calculate_normal_grade(pct)

\* calculate_totals that returns early for an audit without sections
calculate_totals_skip_empty(db, a) ==
    IF SectionsOf(db, a) = {} THEN db
    ELSE LET secs == SectionsOf(db, a)
             total_scored ==
                 SumOver(secs, [s \in Sections |-> db.auditSections[<<a, s>>].scoredPoints])
             total_possible ==
                 SumOver(secs, [s \in Sections |-> db.auditSections[<<a, s>>].possiblePoints])
             critical == AuditCritical(db, a)
             pct == IF total_possible > 0 THEN Quantize(total_scored, total_possible)
                    ELSE 0
         IN  [db EXCEPT !.audits[a] =
                 [@ EXCEPT !.totalScored = total_scored,
                           !.totalPossible = total_possible,
                           !.hasCriticalFailure = critical,
                           !.totalPercentage = pct,
                           !.grade = Grade(critical, pct)]]

\* Audit.calculate_totals: sums the stored AuditSection rows of the audit
calculate_totals(db, a) ==
    LET secs == SectionsOf(db, a)
        total_scored ==
            SumOver(secs, [s \in Sections |-> db.auditSections[<<a, s>>].scoredPoints])
        total_possible ==
            SumOver(secs, [s \in Sections |-> db.auditSections[<<a, s>>].possiblePoints])
        critical == AuditCritical(db, a)
        pct == IF total_possible > 0 THEN Quantize(total_scored, total_possible)
               ELSE 0
    IN  [db EXCEPT !.audits[a] =
            [@ EXCEPT !.totalScored = total_scored,
                      !.totalPossible = total_possible,
                      !.hasCriticalFailure = critical,
                      !.totalPercentage = pct,
                      !.grade = Grade(critical, pct)]]

\* post_save receiver of AuditSection
update_audit_on_section_change(db, a) == calculate_totals(db, a)

(***************************************************************************)
(* AuditSection.calculate_section_score                                    *)
(***************************************************************************)
\* self.auditquestionresponse_set.all()
ResponsesOf(db, a, s) == {q \in Questions : db.responses[<<a, s, q>>].exists}

\* the possible points kept as a running total
SectionPossible_running(db, a, s) ==
    db.auditSections[<<a, s>>].possiblePoints
        + SumOver(ResponsesOf(db, a, s), [q \in Questions |-> QPossible(q)])

\* sum of question.possible_points over the responses of the section
SectionPossible(db, a, s) ==
    SumOver(ResponsesOf(db, a, s), [q \in Questions |-> QPossible(q)])

\* the section score kept as a running total: the new sum added to the
\* stored one
SectionScored_delta(db, a, s) ==
    db.auditSections[<<a, s>>].scoredPoints +
    SumOver(ResponsesOf(db, a, s),
            [q \in Questions |-> db.responses[<<a, s, q>>].scoredPoints])

\* sum of scored_points over the responses of the section
SectionScored(db, a, s) ==
    SumOver(ResponsesOf(db, a, s),
            [q \in Questions |-> db.responses[<<a, s, q>>].scoredPoints])

\* the section flag never reset once set
SectionCritical_sticky(db, a, s) ==
    \/ db.auditSections[<<a, s>>].hasCriticalFailure
    \/ \E q \in ResponsesOf(db, a, s) :
        QCritical(q) /\ db.responses[<<a, s, q>>].scoredPoints = 0

\* any critical question with scored_points == 0
SectionCritical(db, a, s) ==
    \E q \in ResponsesOf(db, a, s) :
        QCritical(q) /\ db.responses[<<a, s, q>>].scoredPoints = 0

\* section_percentage forced to 0 by a critical failure
SectionPercentage_zeroed(scored, possible, critical) ==
    IF critical THEN 0
    ELSE IF possible > 0 THEN Quantize(scored, possible) ELSE 0

\* section_percentage from the two sums and the critical flag
SectionPercentage(scored, possible, critical) ==
    IF possible > 0 THEN Quantize(scored, possible) ELSE 0

\* AuditSection.calculate_section_score: recompute the four fields from the
\* stored responses, save them (the AuditSection post_save receiver runs),
\* then self.audit.calculate_totals()
calculate_section_score(db, a, s) ==
    LET total_possible == SectionPossible(db, a, s)
        total_scored == SectionScored(db, a, s)
        critical_failures == SectionCritical(db, a, s)
        saved == [db EXCEPT !.auditSections[<<a, s>>] =
                    [@ EXCEPT !.possiblePoints = total_possible,
                              !.scoredPoints = total_scored,
                              !.hasCriticalFailure = critical_failures,
                              !.sectionPercentage =
                                  SectionPercentage(total_scored, total_possible,
                                                    critical_failures)]]
    IN  calculate_totals(update_audit_on_section_change(saved, a), a)

\* post_save / post_delete receiver of AuditQuestionResponse
update_scores_on_response_change(db, a, s) ==
    calculate_totals(calculate_section_score(db, a, s), a)


(***************************************************************************)
(* Response validation and AuditQuestionResponse.save                      *)
(***************************************************************************)
\* a float: not-a-number, or a value in thousandths of a point
Float(v) == [nan |-> FALSE, v |-> v]
NaN == [nan |-> TRUE, v |-> 0]

\* request.POST.get('scored_points') or '0', then float(); ValueError -> 0.0
ParseFloat(form) ==
    CASE form.kind = "number" -> Float(form.v)
      [] form.kind = "nan"    -> NaN
      [] OTHER                -> Float(0)

\* the clamp at the head of AuditQuestionResponse.save: Decimal(nan) > x
\* raises InvalidOperation, which is logged and swallowed
ModelClamp(f, q) ==
    IF f.nan THEN f
    ELSE IF f.v > QPossible(q) * 10 THEN Float(QPossible(q) * 10) ELSE f

\* pre_save receiver: TRUE when the comparison raises (not-a-number)
ValidateRaises(f) == f.nan

\* validate_response_points without the reset of negative values
validate_response_points_no_floor(f, q) ==
    IF f.v > QPossible(q) * 10 THEN Float(QPossible(q) * 10) ELSE f

\* pre_save receiver validate_response_points on a number
validate_response_points(f, q) ==
    LET capped == IF f.v > QPossible(q) * 10 THEN Float(QPossible(q) * 10) ELSE f
    IN  IF capped.v < 0 THEN Float(0) ELSE capped

\* the row written with the value as submitted, the ceiling not applied
ValidatedScore_unclamped(f, q) == IF f.v < 0 THEN Float(0) ELSE f

\* a value above the ceiling reset to 0 instead of the ceiling
ValidatedScore_reset(f, q) ==
    IF f.v > QPossible(q) * 10 \/ f.v < 0 THEN Float(0) ELSE f

\* instance.scored_points when the row is written: save()'s clamp, then the
\* pre_save receiver
ValidatedScore(f, q) == validate_response_points(ModelClamp(f, q), q)

\* post_save receiver: one CorrectiveAction per failing critical response
auto_create_corrective_action(db, a, s, q, f) ==
    IF QCritical(q) /\ f.v = 0 /\ db.correctiveActions[<<a, s, q>>] = <<>>
    THEN [db EXCEPT !.correctiveActions[<<a, s, q>>] =
            <<[riskLevel |-> "CRITICAL", completed |-> FALSE,
               completionDate |-> 0]>>]
    ELSE db

\* AuditQuestionResponse.save (insert or update): clamp, pre_save, write the
\* row, post_save receivers, calculate_section_score.  raised: the exception
\* of the pre_save receiver is re-raised and nothing is written.
ResponseSave(db, a, s, q, f, comments, needs) ==
    IF ValidateRaises(ModelClamp(f, q))
    THEN [db |-> db, raised |-> TRUE, scored |-> f]
    ELSE
      LET v == ValidatedScore(f, q)
          written == [db EXCEPT !.responses[<<a, s, q>>] =
                        [exists |-> TRUE,
                         scoredPoints |-> ToDecimalField(v.v),
                         comments |-> comments,
                         needsCorrectiveAction |-> needs]]
          scoredUp == update_scores_on_response_change(written, a, s)
          withCA == auto_create_corrective_action(scoredUp, a, s, q, v)
      IN  [db |-> calculate_section_score(withCA, a, s), raised |-> FALSE,
           scored |-> v]

(***************************************************************************)
(* Progress                                                                *)
(***************************************************************************)
\* str.strip() on the comments alphabet
Strip(c) == IF c = " " THEN "" ELSE c

\* every stored response counted as answered
IsAnswered_any(r) == r.scoredPoints >= 0

\* scored > 0 or non-empty stripped comments
IsAnswered(r) == r.scoredPoints > 0 \/ Strip(r.comments) # ""

\* Question.objects.filter(section=...)
QuestionsOf(s) == {q \in Questions : QSection(q) = s}

\* Audit.get_progress_percentage, in hundredths of a percent
get_progress_percentage(db, a) ==
    LET secs == SectionsOf(db, a)
        total_questions == SumOver(secs, [s \in Sections |-> Cardinality(QuestionsOf(s))])
        answered_questions ==
            SumOver(secs, [s \in Sections |->
                Cardinality({q \in QuestionsOf(s) :
                    /\ db.responses[<<a, s, q>>].exists
                    /\ IsAnswered(db.responses[<<a, s, q>>])})])
    IN  IF total_questions > 0
        THEN RoundHalfEven(answered_questions * 10000, total_questions)
        ELSE 0

\* AuditSection.progress_percentage, in hundredths of a percent: every
\* response row of the audit section is inspected, whatever its question
progress_percentage(db, a, s) ==
    LET total_questions == Cardinality(QuestionsOf(s))
        answered_questions ==
            Cardinality({q \in Questions :
                /\ db.responses[<<a, s, q>>].exists
                /\ IsAnswered(db.responses[<<a, s, q>>])})
    IN  IF total_questions = 0 THEN 0
        ELSE RoundHalfEven(answered_questions * 10000, total_questions)

\* can_be_submitted that looks at the progress only
can_be_submitted_progress_only(db, a) ==
    get_progress_percentage(db, a) > 0

\* Audit.can_be_submitted
can_be_submitted(db, a) ==
    /\ ~db.audits[a].isSubmitted
    /\ get_progress_percentage(db, a) > 0

(***************************************************************************)
(* Audit.submit_audit                                                      *)
(***************************************************************************)
\* get_previous_audit without the is_submitted=True filter
PreviousCandidates_any_status(db, a) ==
    {b \in Audits : /\ db.audits[b].exists
                    /\ AuditRestaurant(b) = AuditRestaurant(a)
                    /\ AuditDate(b) < AuditDate(a)}

\* Audit.get_previous_audit: candidates, the latest of which is taken
PreviousCandidates(db, a) ==
    {b \in Audits : /\ db.audits[b].exists
                    /\ AuditRestaurant(b) = AuditRestaurant(a)
                    /\ AuditDate(b) < AuditDate(a)
                    /\ db.audits[b].isSubmitted}

\* Audit.update_previous_audit_info
update_previous_audit_info(db, a) ==
    LET cands == PreviousCandidates(db, a)
    IN  IF cands = {} THEN db
        ELSE LET prev == CHOOSE b \in cands :
                            \A c \in cands : AuditDate(c) <= AuditDate(b)
             IN  [db EXCEPT !.audits[a] =
                    [@ EXCEPT !.previousAuditDate = AuditDate(prev),
                              !.previousAuditScore = db.audits[prev].totalPercentage,
                              !.previousAuditor = AuditAuditor(prev)]]

\* Audit.submit_audit at clock value t
submit_audit(db, a, t) ==
    LET totalled == calculate_totals(db, a)
        snap == update_previous_audit_info(totalled, a)
    IN  [snap EXCEPT !.audits[a] = [@ EXCEPT !.isSubmitted = TRUE,
                                             !.submittedAt = t]]


\* the points of Audit.submit_audit where a database statement may fail:
\* the query of calculate_totals, its save, the save of
\* update_previous_audit_info, and the final save
SubmitFaults == {"submit_audit.totals_query", "submit_audit.totals_save",
                 "submit_audit.previous_save", "submit_audit.final_save"}

\* an atomic block that commits whatever its body wrote
Atomic_commit(before, after, needs_rollback) == after

\* @transaction.atomic around a body that caught its exceptions: a save that
\* raised has marked the connection for rollback, and the block then
\* restores the state it started from
Atomic(before, after, needs_rollback) ==
    IF needs_rollback THEN before ELSE after

\* Audit.submit_audit at clock value t when the statement at the fault
\* raises: what the except branches leave and return
submit_audit_faulty(db, a, t, fault) ==
    LET totalled == calculate_totals(db, a)
        snap == update_previous_audit_info(totalled, a)
    IN  CASE fault = "submit_audit.totals_query" ->
                \* calculate_totals returns False before any write
                [db |-> Atomic(db, db, FALSE), success |-> FALSE]
          [] fault = "submit_audit.totals_save" ->
                \* both the update_fields save and the fallback save raise
                [db |-> Atomic(db, db, TRUE), success |-> FALSE]
          [] fault = "submit_audit.previous_save"
                /\ PreviousCandidates(db, a) # {} ->
                \* swallowed, then the final save raises in the broken
                \* transaction
                [db |-> Atomic(db, totalled, TRUE), success |-> FALSE]
          [] fault = "submit_audit.final_save" ->
                [db |-> Atomic(db, snap, TRUE), success |-> FALSE]
          [] OTHER ->
                [db |-> Atomic(db, submit_audit(db, a, t), FALSE),
                 success |-> TRUE]

(***************************************************************************)
(* Request handlers of core/views.py                                       *)
(***************************************************************************)
\* get_object_or_404(audit_qs, id=audit_id) finds the audit
AuditVisible(db, user, a) ==
    /\ a \in Audits
    /\ db.audits[a].exists
    /\ (IsAdmin(user) \/ AuditAuditor(a) = user)

\* AuditSection.objects.get_or_create(audit=, section=); a created row fires
\* the AuditSection post_save receiver
GetOrCreateSection(db, a, s) ==
    IF db.auditSections[<<a, s>>].exists THEN db
    ELSE update_audit_on_section_change(
            [db EXCEPT !.auditSections[<<a, s>>] = NewAuditSection], a)

\* save_response whose audit totals are taken from the section rows as they
\* were before the response was saved
save_response_totals_first(db, user, a, s, q, form, comments, needs) ==
    LET scored_points == ParseFloat(form)
    IN  IF ~(AuditVisible(db, user, a) /\ s \in Sections /\ q \in Questions)
        THEN [db |-> db, status |-> 500, success |-> FALSE]
        ELSE
          LET db1 == GetOrCreateSection(db, a, s)
              r1 == ResponseSave(db1, a, s, q, scored_points, comments, needs)
              r2 == IF QCritical(q) /\ scored_points.v = 0
                    THEN ResponseSave(r1.db, a, s, q, r1.scored, comments, TRUE)
                    ELSE r1
          IN  IF r1.raised
              THEN [db |-> db1, status |-> 500, success |-> FALSE]
              ELSE [db |-> [calculate_section_score(r2.db, a, s) EXCEPT
                               !.audits[a] = calculate_totals(db1, a).audits[a]],
                    status |-> 200, success |-> TRUE]

\* views.save_response: the database it leaves and the reply it sends
save_response(db, user, a, s, q, form, comments, needs) ==
    LET scored_points == ParseFloat(form)
    IN  IF ~(AuditVisible(db, user, a) /\ s \in Sections /\ q \in Questions)
        THEN [db |-> db, status |-> 500, success |-> FALSE]
        ELSE
          LET db1 == GetOrCreateSection(db, a, s)
              r1 == ResponseSave(db1, a, s, q, scored_points, comments, needs)
              r2 == IF QCritical(q) /\ scored_points.v = 0
                    THEN ResponseSave(r1.db, a, s, q, r1.scored, comments, TRUE)
                    ELSE r1
          IN  IF r1.raised
              THEN [db |-> db1, status |-> 500, success |-> FALSE]
              ELSE [db |-> calculate_totals(
                              calculate_section_score(r2.db, a, s), a),
                    status |-> 200, success |-> TRUE]

\* views.submit_audit without the can_be_submitted guard
submit_audit_view_unguarded(db, user, a, t) ==
    IF ~AuditVisible(db, user, a)
    THEN [db |-> db, status |-> 500, success |-> FALSE]
    ELSE [db |-> submit_audit(db, a, t), status |-> 200, success |-> TRUE]

\* views.submit_audit at clock value t
submit_audit_view(db, user, a, t) ==
    IF ~AuditVisible(db, user, a)
    THEN [db |-> db, status |-> 500, success |-> FALSE]
    ELSE IF ~can_be_submitted(db, a)
    THEN [db |-> db, status |-> 200, success |-> FALSE]
    ELSE [db |-> submit_audit(db, a, t), status |-> 200, success |-> TRUE]

\* the recomputation writes of a response save that may fail: the save of
\* the AuditSection row in calculate_section_score (as when the section's
\* possible points reach 10000.00, beyond max_digits=6) and the save of the
\* Audit row in calculate_totals
SaveFaults == {"save_response.section_save", "save_response.totals_save"}

\* views.save_response when that write raises in every recomputation of the
\* request.  The methods log and swallow the exception, the view goes on to
\* build its success reply, and the transaction, marked for rollback by the
\* failed save, is rolled back when the view returns.  Only the second save
\* of a failed critical question on an existing row lets the broken
\* transaction surface, as a 500.
save_response_faulty(db, user, a, s, q, form, comments, needs, fault) ==
    LET scored_points == ParseFloat(form)
    IN  IF ~(AuditVisible(db, user, a) /\ s \in Sections /\ q \in Questions)
        THEN [db |-> db, status |-> 500, success |-> FALSE]
        ELSE
          LET db1 == GetOrCreateSection(db, a, s)
              r1 == ResponseSave(db1, a, s, q, scored_points, comments, needs)
              written == [db1 EXCEPT
                            !.responses[<<a, s, q>>] = r1.db.responses[<<a, s, q>>],
                            !.correctiveActions[<<a, s, q>>] =
                                r1.db.correctiveActions[<<a, s, q>>]]
          IN  IF r1.raised
              THEN [db |-> db1, status |-> 500, success |-> FALSE]
              ELSE IF /\ QCritical(q) /\ scored_points.v = 0
                      /\ db.responses[<<a, s, q>>].exists
              THEN [db |-> Atomic(db, written, TRUE), status |-> 500,
                    success |-> FALSE]
              ELSE [db |-> Atomic(db, written, TRUE), status |-> 200,
                    success |-> TRUE]

\* views.submit_audit when a statement of Audit.submit_audit raises
submit_audit_view_faulty(db, user, a, t, fault) ==
    IF ~AuditVisible(db, user, a)
    THEN [db |-> db, status |-> 500, success |-> FALSE]
    ELSE IF ~can_be_submitted(db, a)
    THEN [db |-> db, status |-> 200, success |-> FALSE]
    ELSE LET res == submit_audit_faulty(db, a, t, fault)
         IN  [db |-> res.db, status |-> 200, success |-> res.success]

\* answered_q of views.audit_progress: the responses of the audit section
\* left by exclude(scored_points__isnull=True, comments__exact='')
ViewAnswered(db, a, s) == Cardinality(ResponsesOf(db, a, s))

\* views.audit_progress that creates the missing AuditSection rows
audit_progress_get_or_create(db, user, a) ==
    IF ~AuditVisible(db, user, a)
    THEN [db |-> db, status |-> 500, answered |-> 0, total |-> 0]
    ELSE [db |-> [db EXCEPT !.auditSections =
                    [k \in SecKeys |-> IF k[1] = a /\ ~@[k].exists
                                       THEN NewAuditSection ELSE @[k]]],
          status |-> 200, answered |-> 0, total |-> 0]

\* views.audit_progress: the database it leaves, the reply status and the
\* counts behind overall_progress
audit_progress(db, user, a) ==
    IF ~AuditVisible(db, user, a)
    THEN [db |-> db, status |-> 500, answered |-> 0, total |-> 0]
    ELSE [db |-> db, status |-> 200,
          answered |-> SumOver(SectionsOf(db, a),
                               [s \in Sections |-> ViewAnswered(db, a, s)]),
          total |-> SumOver(SectionsOf(db, a),
                            [s \in Sections |-> Cardinality(QuestionsOf(s))])]

(***************************************************************************)
(* State machine                                                           *)
(***************************************************************************)
CurrentDb == Db(audits, auditSections, responses, correctiveActions)

\* the tables after an operation
Commit(db) ==
    /\ audits' = db.audits
    /\ auditSections' = db.auditSections
    /\ responses' = db.responses
    /\ correctiveActions' = db.correctiveActions
    /\ txn' = txn

\* the workers that serve requests side by side, and the question each one
\* is asked to save (both of section S1 of audit A1)
Workers == {"w1", "w2"}
WorkerQuestion(w) == IF w = "w1" THEN "Q1" ELSE "Q2"

\* a worker between requests
NoTxn == [pc |-> "idle", raw |-> Float(0), scored |-> Float(0),
          row |-> NoResponse, ca |-> <<>>, sec |-> NoAuditSection,
          aud |-> NoAudit]

\* what the statements of transaction t read: the committed rows under the
\* rows t has written
TxnView(db, a, s, q, t) ==
    [db EXCEPT !.responses[<<a, s, q>>] = t.row,
               !.correctiveActions[<<a, s, q>>] = t.ca,
               !.auditSections[<<a, s>>] = t.sec,
               !.audits[a] = t.aud]

\* save_response that ends with the aggregates its first recomputation wrote
FinishSave_first_only(db, a, s, q, t) == db

\* save_response after the first UPDATE of the AuditSection row: the
\* calculate_section_score of AuditQuestionResponse.save, the second save of
\* a failed critical question, and the recomputations of the view
FinishSave(db, a, s, q, t) ==
    LET r2 == IF QCritical(q) /\ t.raw.v = 0
              THEN ResponseSave(db, a, s, q, t.scored, t.row.comments, TRUE).db
              ELSE calculate_section_score(db, a, s)
    IN  calculate_totals(calculate_section_score(r2, a, s), a)

\* what the last operation was and what it answered
Last(op, status, success, u, a, s, q, f) ==
    [op |-> op, status |-> status, success |-> success, user |-> u,
     audit |-> a, section |-> s, question |-> q, raw |-> f]

\* the scored_points values a request may carry
FormScores == {[kind |-> "text", v |-> 0],
               [kind |-> "nan", v |-> 0], [kind |-> "number", v |-> -1000],
               [kind |-> "number", v |-> 3000],
               [kind |-> "number", v |-> 99000]}
Comments == {""}
\* the audits that exist under Spec
SpecAudits == {"A1", "A2"}
\* the audits that receive save_response requests under Spec, and the users
\* who send them
Answered == {"A1"}
SaveUsers == {"alice"}
\* the needs_corrective_action values a request may carry
NeedsInputs == {FALSE}

Init ==
    /\ audits = [a \in Audits |-> NoAudit]
    /\ auditSections = [k \in SecKeys |-> NoAuditSection]
    /\ responses = [k \in Slots |-> NoResponse]
    /\ correctiveActions = [k \in Slots |-> <<>>]
    /\ now = 1
    /\ last = Last("init", 0, TRUE, "-", "-", "-", "-", Float(0))
    /\ txn = [w \in Workers |-> NoTxn]

RECURSIVE CreateSections(_, _, _)
\* for section in Section.objects.all(): AuditSection.objects.create(...)
CreateSections(db, a, todo) ==
    IF todo = {} THEN db
    ELSE LET s == CHOOSE x \in todo : TRUE
         IN  CreateSections(
                update_audit_on_section_change(
                    [db EXCEPT !.auditSections[<<a, s>>] = NewAuditSection], a),
                a, todo \ {s})

\* views.create_audit: the audit and one AuditSection per Section
create_audit(db, a) ==
    CreateSections([db EXCEPT !.audits[a] = NewAudit], a, Sections)

CreateAudit(a) ==
    /\ ~audits[a].exists
    /\ \E db \in {create_audit(CurrentDb, a)} : Commit(db)
    /\ last' = Last("create_audit", 302, TRUE, "-", "-", "-", "-", Float(0))
    /\ UNCHANGED now

\* an Audit added on the admin site (AuditAdmin): no AuditSection rows
AdminAddAudit(a) ==
    /\ ~audits[a].exists
    /\ \E db \in {[CurrentDb EXCEPT !.audits[a] = NewAudit]} : Commit(db)
    /\ last' = Last("admin_add_audit", 302, TRUE, "-", "-", "-", "-", Float(0))
    /\ UNCHANGED now

SaveResponse(user, a, s, q, form, comments, needs) ==
    /\ \E res \in {save_response(CurrentDb, user, a, s, q, form, comments, needs)} :
           /\ Commit(res.db)
           /\ last' = Last("save_response", res.status, res.success, user,
                            a, s, q, ParseFloat(form))
    /\ UNCHANGED now

\* the tables after a response row is deleted: its CorrectiveActions
\* cascade, the post_delete receiver recomputes the scores
delete_response(db, a, s, q) ==
    update_scores_on_response_change(
        [db EXCEPT !.responses[<<a, s, q>>] = NoResponse,
                   !.correctiveActions[<<a, s, q>>] = <<>>],
        a, s)

\* a response deleted on the admin site
DeleteResponse(a, s, q) ==
    /\ responses[<<a, s, q>>].exists
    /\ \E db \in {delete_response(CurrentDb, a, s, q)} : Commit(db)
    /\ last' = Last("delete_response", 302, TRUE, "-", a, s, q, Float(0))
    /\ UNCHANGED now

SubmitAudit(user, a) ==
    \E res \in {submit_audit_view(CurrentDb, user, a, now)} :
        /\ Commit(res.db)
        /\ now' = IF res.success THEN now + 1 ELSE now
        /\ last' = Last("submit_audit", res.status, res.success, user, a,
                        "-", "-", Float(0))

\* POST submit_audit during which the statement at the fault raises
SubmitAuditFaulty(user, a, fault) ==
    \E res \in {submit_audit_view_faulty(CurrentDb, user, a, now, fault)} :
        /\ Commit(res.db)
        /\ now' = IF res.success THEN now + 1 ELSE now
        /\ last' = Last(fault, res.status, res.success, user, a, "-", "-",
                        Float(0))

\* worker w starts save_response: get_or_create / save writes the response
\* row and the post_save receiver computes the aggregates from the rows the
\* transaction can see
TxnInsert(w, form) ==
    /\ txn[w].pc = "idle"
    /\ \E r \in {ResponseSave(CurrentDb, "A1", "S1", WorkerQuestion(w),
                               ParseFloat(form), "", FALSE)} :
          /\ ~r.raised
          /\ txn' = [txn EXCEPT ![w] =
                [pc |-> "inserted", raw |-> ParseFloat(form), scored |-> r.scored,
                 row |-> r.db.responses[<<"A1", "S1", WorkerQuestion(w)>>],
                 ca |-> r.db.correctiveActions[<<"A1", "S1", WorkerQuestion(w)>>],
                 sec |-> r.db.auditSections[<<"A1", "S1">>],
                 aud |-> r.db.audits["A1"]]]
    /\ last' = Last("txn_insert", 0, TRUE, "alice", "A1", "S1",
                    WorkerQuestion(w), ParseFloat(form))
    /\ UNCHANGED <<audits, auditSections, responses, correctiveActions, now>>

\* the first UPDATE of the AuditSection row: it waits for the row lock of
\* another open transaction and then writes the values computed before
TxnUpdate(w) ==
    /\ txn[w].pc = "inserted"
    /\ \A o \in Workers : txn[o].pc # "locked"
    /\ txn' = [txn EXCEPT ![w].pc = "locked"]
    /\ last' = Last("txn_update", 0, TRUE, "alice", "A1", "S1",
                    WorkerQuestion(w), txn[w].raw)
    /\ UNCHANGED <<audits, auditSections, responses, correctiveActions, now>>

\* the remaining statements of save_response and the commit
TxnCommit(w) ==
    /\ txn[w].pc = "locked"
    /\ \E db \in {FinishSave(TxnView(CurrentDb, "A1", "S1", WorkerQuestion(w),
                                      txn[w]),
                              "A1", "S1", WorkerQuestion(w), txn[w])} :
          /\ audits' = db.audits
          /\ auditSections' = db.auditSections
          /\ responses' = db.responses
          /\ correctiveActions' = db.correctiveActions
    /\ txn' = [txn EXCEPT ![w].pc = "idle"]
    /\ last' = Last("txn_commit", 200, TRUE, "alice", "A1", "S1",
                    WorkerQuestion(w), txn[w].raw)
    /\ UNCHANGED now

\* the store gives up on the waiting statement (lock wait timeout,
\* "database is locked"): the view answers 500 and the transaction is
\* rolled back
TxnAbort(w) ==
    /\ txn[w].pc = "inserted"
    /\ \E o \in Workers : txn[o].pc = "locked"
    /\ txn' = [txn EXCEPT ![w].pc = "idle"]
    /\ last' = Last("txn_abort", 500, FALSE, "alice", "A1", "S1",
                    WorkerQuestion(w), txn[w].raw)
    /\ UNCHANGED <<audits, auditSections, responses, correctiveActions, now>>

\* POST save_response during which the recomputation write at the fault
\* raises
SaveResponseFaulty(user, a, s, q, form, comments, needs, fault) ==
    /\ \E res \in {save_response_faulty(CurrentDb, user, a, s, q, form, comments,
                                         needs, fault)} :
           /\ Commit(res.db)
           /\ last' = Last(fault, res.status, res.success, user, a, s, q,
                           ParseFloat(form))
    /\ UNCHANGED now

\* GET audit_progress
AuditProgress(user, a) ==
    \E res \in {audit_progress(CurrentDb, user, a)} :
        /\ Commit(res.db)
        /\ last' = Last("audit_progress", res.status, res.status = 200, user, a,
                        "-", "-", Float(0))
        /\ UNCHANGED now

RECURSIVE RecalcSections(_, _, _)
\* for section in sections: section.calculate_section_score()
RecalcSections(db, a, todo) ==
    IF todo = {} THEN db
    ELSE LET s == CHOOSE x \in todo : TRUE
         IN  RecalcSections(calculate_section_score(db, a, s), a, todo \ {s})

\* utils.recalculate_section_scores(audit_id)
recalculate_section_scores(db, a) ==
    calculate_totals(RecalcSections(db, a, SectionsOf(db, a)), a)

RecalculateSectionScores(a) ==
    /\ audits[a].exists
    /\ \E db \in {recalculate_section_scores(CurrentDb, a)} : Commit(db)
    /\ last' = Last("recalculate", 0, TRUE, "-", a, "-", "-", Float(0))
    /\ UNCHANGED now

\* recalculate_section_scores run outside a transaction: the iteration of
\* its loop for the first section (Meta.ordering of AuditSection), whose
\* saves are committed before the next iteration starts
RecalculateSectionStep(a) ==
    /\ audits[a].exists
    /\ SectionsOf(CurrentDb, a) = Sections
    /\ \E db \in {calculate_section_score(CurrentDb, a, "S1")} : Commit(db)
    /\ last' = Last("recalculate_step", 0, TRUE, "-", a, "S1", "-", Float(0))
    /\ UNCHANGED now

\* the iteration for the last section and the closing audit.calculate_totals()
RecalculateSectionFinish(a) ==
    /\ last.op = "recalculate_step"
    /\ last.audit = a
    /\ \E db \in {calculate_totals(calculate_section_score(CurrentDb, a, "S2"), a)} :
          Commit(db)
    /\ last' = Last("recalculate", 0, TRUE, "-", a, "-", "-", Float(0))
    /\ UNCHANGED now

\* the AuditSection change form of the admin site: scored_points and
\* possible_points are editable, the percentage and the flag are not; the
\* AuditSection post_save receiver recomputes the audit
admin_edit_section(db, a, s, scored, possible) ==
    update_audit_on_section_change(
        [db EXCEPT !.auditSections[<<a, s>>] =
            [@ EXCEPT !.scoredPoints = scored, !.possiblePoints = possible]], a)

AdminEditSection(a, s, scored, possible) ==
    /\ auditSections[<<a, s>>].exists
    /\ \E db \in {admin_edit_section(CurrentDb, a, s, scored, possible)} : Commit(db)
    /\ last' = Last("admin_edit_section", 302, TRUE, "-", a, s, "-", Float(0))
    /\ UNCHANGED now

RECURSIVE RecalcAudits(_, _)
\* for audit in audits: audit.calculate_totals()
RecalcAudits(db, todo) ==
    IF todo = {} THEN db
    ELSE LET a == CHOOSE x \in todo : TRUE
         IN  RecalcAudits(calculate_totals(db, a), todo \ {a})

\* utils.recalculate_all_audits()
recalculate_all_audits(db) ==
    RecalcAudits(db, {a \in Audits : db.audits[a].exists})

RecalculateAllAudits ==
    /\ \E db \in {recalculate_all_audits(CurrentDb)} : Commit(db)
    /\ last' = Last("recalculate", 0, TRUE, "-", "-", "-", "-", Float(0))
    /\ UNCHANGED now

Next ==
    \/ \E a \in SpecAudits : CreateAudit(a)
    \/ \E a \in SpecAudits : AdminAddAudit(a)
    \/ \E u \in SaveUsers, a \in Answered, s \in Sections, f \in FormScores,
          c \in Comments, n \in NeedsInputs :
            \E q \in QuestionsOf(s) : SaveResponse(u, a, s, q, f, c, n)
    \/ \E a \in SpecAudits, s \in Sections, q \in Questions : DeleteResponse(a, s, q)
    \/ \E u \in Users, a \in SpecAudits : SubmitAudit(u, a)
    \/ \E a \in SpecAudits : RecalculateSectionScores(a)
    \/ RecalculateAllAudits

Spec == Init /\ [][Next]_vars


(***************************************************************************)
(* GradeSpec: one audit created through the view whose only answered       *)
(* question is the non-critical Q3 (10.00 points), saved with every score  *)
(* from 10.00 - GradeSpan/100 to 10.00, so that the audit percentage runs  *)
(* over the grade boundaries.                                              *)
(***************************************************************************)
EmptyDb == Db([a \in Audits |-> NoAudit], [k \in SecKeys |-> NoAuditSection],
              [k \in Slots |-> NoResponse], [k \in Slots |-> <<>>])

GradeScores == {10 * c : c \in (QPossible("Q3") - GradeSpan)..QPossible("Q3")}

GradeInit ==
    /\ \E db \in {create_audit(EmptyDb, "A1")} :
           /\ audits = db.audits
           /\ auditSections = db.auditSections
           /\ responses = db.responses
           /\ correctiveActions = db.correctiveActions
    /\ txn = [w \in Workers |-> NoTxn]
    /\ now = 1
    /\ last = Last("create_audit", 302, TRUE, "-", "-", "-", "-", Float(0))

GradeNext ==
    \E v \in GradeScores :
        SaveResponse("alice", "A1", "S2", "Q3", [kind |-> "number", v |-> v],
                     "", FALSE)

GradeSpec == GradeInit /\ [][GradeNext]_vars

(***************************************************************************)
(* CorrectiveAction.save and its post_save receiver                        *)
(***************************************************************************)
\* completion_date overwritten by every save that finds completed set
CompletionDate_overwrite(ca, completed, t) ==
    IF completed THEN t ELSE ca.completionDate

\* CorrectiveAction.save: "if self.completed and not self.completion_date"
\* (0 stands for no date)
CompletionDate(ca, completed, t) ==
    IF completed /\ ca.completionDate = 0 THEN t ELSE ca.completionDate

\* post_save receiver update_completion_date on the saved row
update_completion_date(ca, t) ==
    IF ca.completed /\ ca.completionDate = 0
    THEN [ca EXCEPT !.completionDate = t] ELSE ca

\* CorrectiveAction.save of the first action of response k with the
\* completed flag of the form, on date t
save_corrective_action(db, k, completed, t) ==
    LET ca == db.correctiveActions[k][1]
        saved == [ca EXCEPT !.completed = completed,
                            !.completionDate = CompletionDate(ca, completed, t)]
    IN  [db EXCEPT !.correctiveActions[k] =
            <<update_completion_date(saved, t)>> \o Tail(db.correctiveActions[k])]

\* a CorrectiveAction edited on the admin site (CorrectiveActionAdmin)
SaveCorrectiveAction(k, completed) ==
    /\ correctiveActions[k] # <<>>
    /\ \E db \in {save_corrective_action(CurrentDb, k, completed, now)} : Commit(db)
    /\ last' = Last("save_corrective_action", 302, TRUE, "-", k[1], k[2], k[3],
                    Float(0))
    /\ UNCHANGED now

\* the day changes
Tick ==
    /\ now < MaxClock
    /\ now' = now + 1
    /\ last' = Last("tick", 0, TRUE, "-", "-", "-", "-", Float(0))
    /\ UNCHANGED <<audits, auditSections, responses, correctiveActions, txn>>

(***************************************************************************)
(* PolicySpec: the corrective-action policy on section S1 of one audit     *)
(* (critical Q1, non-critical Q2).  Scores include a negative one and one  *)
(* below a hundredth of a point; the request carries either value of       *)
(* needs_corrective_action; corrective actions are completed and reopened  *)
(* on the admin site while the days pass.                                  *)
(***************************************************************************)
PolicyScores == {[kind |-> "text", v |-> 0], [kind |-> "number", v |-> -1000],
                 [kind |-> "number", v |-> 4], [kind |-> "number", v |-> 99000]}

PolicySave ==
    \E q \in QuestionsOf("S1"), f \in PolicyScores, n \in BOOLEAN :
        SaveResponse("alice", "A1", "S1", q, f, "", n)

PolicyNext ==
    \/ PolicySave
    \/ \E k \in Slots, c \in BOOLEAN : SaveCorrectiveAction(k, c)
    \/ Tick

PolicySpec == GradeInit /\ [][PolicyNext]_vars

(***************************************************************************)
(* ProgressSpec: one audit, created by the view or added on the admin      *)
(* site, whose three questions are answered with or without a score and    *)
(* with empty, blank or real comments, and whose progress is read.         *)
(***************************************************************************)
ProgressScores == {[kind |-> "text", v |-> 0], [kind |-> "number", v |-> 3000]}
ProgressComments == {"", " ", "ok"}

ProgressSave ==
    \E s \in Sections, f \in ProgressScores, c \in ProgressComments :
        \E q \in QuestionsOf(s) : SaveResponse("alice", "A1", s, q, f, c, FALSE)

ProgressNext ==
    \/ CreateAudit("A1")
    \/ AdminAddAudit("A1")
    \/ ProgressSave
    \/ \E u \in Users : AuditProgress(u, "A1")

ProgressSpec == Init /\ [][ProgressNext]_vars

(***************************************************************************)
(* SubmitSpec: five audits of two restaurants on three dates, each         *)
(* answered by one request with a score of its own and submitted in any    *)
(* order by the administrator.                                             *)
(***************************************************************************)
RECURSIVE CreateAll(_, _)
\* create_audit for every audit of the set
CreateAll(db, todo) ==
    IF todo = {} THEN db
    ELSE LET a == CHOOSE x \in todo : TRUE
         IN  CreateAll(create_audit(db, a), todo \ {a})

SubmitInit ==
    /\ \E db \in {CreateAll(EmptyDb, Audits)} :
           /\ audits = db.audits
           /\ auditSections = db.auditSections
           /\ responses = db.responses
           /\ correctiveActions = db.correctiveActions
    /\ txn = [w \in Workers |-> NoTxn]
    /\ now = 1
    /\ last = Last("create_audit", 302, TRUE, "-", "-", "-", "-", Float(0))

\* the one request sent for each audit: <<audit, section, question, score>>
SubmitRequests ==
    {<<"A1", "S2", "Q3", 99000>>, <<"A2", "S2", "Q3", 3000>>,
     <<"A3", "S1", "Q2", 3000>>, <<"A4", "S1", "Q2", 4000>>,
     <<"A5", "S2", "Q3", 7000>>}

SubmitSave ==
    \E r \in SubmitRequests :
        SaveResponse("bob", r[1], r[2], r[3], [kind |-> "number", v |-> r[4]],
                     "", FALSE)

SubmitNext ==
    \/ SubmitSave
    \/ \E a \in Audits : SubmitAudit("bob", a)

SubmitSpec == SubmitInit /\ [][SubmitNext]_vars

(***************************************************************************)
(* FaultSpec: SubmitSpec with submits during which a statement raises.     *)
(***************************************************************************)
\* the audits whose submit meets a failing statement
FaultAudits == {"A2", "A3"}

FaultNext ==
    \/ SubmitNext
    \/ \E a \in FaultAudits, fault \in SubmitFaults :
          SubmitAuditFaulty("bob", a, fault)

FaultSpec == SubmitInit /\ [][FaultNext]_vars

(***************************************************************************)
(* ConcSpec: two workers save responses for Q1 and Q2 of section S1 of     *)
(* the same audit in transactions whose statements interleave.             *)
(***************************************************************************)
ConcScores == {[kind |-> "text", v |-> 0], [kind |-> "number", v |-> 500],
               [kind |-> "number", v |-> 99000]}

ConcNext ==
    \/ \E w \in Workers, f \in ConcScores : TxnInsert(w, f)
    \/ \E w \in Workers : TxnUpdate(w)
    \/ \E w \in Workers : TxnCommit(w)
    \/ \E w \in Workers : TxnAbort(w)

ConcSpec == GradeInit /\ [][ConcNext]_vars

(***************************************************************************)
(* RecalcSpec: the section rows of one audit are answered through the      *)
(* view, overwritten on the admin site, and put right again by             *)
(* recalculate_section_scores, whose loop commits section by section.      *)
(***************************************************************************)
RecalcScores == {[kind |-> "text", v |-> 0], [kind |-> "number", v |-> 3000]}
\* <<scored_points, possible_points>> typed into the admin form
AdminPoints == {<<0, 0>>, <<200, 500>>}

RecalcNext ==
    \/ \E s \in Sections, f \in RecalcScores :
          \E q \in QuestionsOf(s) : SaveResponse("alice", "A1", s, q, f, "", FALSE)
    \/ \E s \in Sections, p \in AdminPoints : AdminEditSection("A1", s, p[1], p[2])
    \/ RecalculateSectionStep("A1")
    \/ RecalculateSectionFinish("A1")

RecalcSpec == GradeInit /\ [][RecalcNext]_vars

(***************************************************************************)
(* SaveFaultSpec: response saves of one audit, some of them with a         *)
(* recomputation write that fails.                                         *)
(***************************************************************************)
SaveFaultScores == {[kind |-> "text", v |-> 0], [kind |-> "number", v |-> 3000]}

SaveFaultNext ==
    \/ \E s \in Sections, f \in SaveFaultScores :
          \E q \in QuestionsOf(s) : SaveResponse("alice", "A1", s, q, f, "", FALSE)
    \/ \E s \in Sections, f \in SaveFaultScores, fault \in SaveFaults :
          \E q \in QuestionsOf(s) :
              SaveResponseFaulty("alice", "A1", s, q, f, "", FALSE, fault)

SaveFaultSpec == GradeInit /\ [][SaveFaultNext]_vars

(***************************************************************************)
(* MismatchSpec: response saves of one audit whose section_id and          *)
(* question_id are chosen independently by the client, and progress reads. *)
(***************************************************************************)
MismatchScores == {[kind |-> "text", v |-> 0], [kind |-> "number", v |-> 3000]}

MismatchSave ==
    \E s \in Sections, q \in Questions, f \in MismatchScores :
        SaveResponse("alice", "A1", s, q, f, "", FALSE)

MismatchNext ==
    \/ MismatchSave
    \/ AuditProgress("alice", "A1")

MismatchSpec == GradeInit /\ [][MismatchNext]_vars

(***************************************************************************)
(* Properties                                                              *)
(***************************************************************************)
ExistingAudits == {a \in Audits : audits[a].exists}
ExistingSections == {k \in SecKeys : auditSections[k].exists}
ExistingResponses == {k \in Slots : responses[k].exists}

\* the last operation was an accepted save_response
SavedOk == last.op = "save_response" /\ last.success

\* the response row the last save_response addressed
LastSlot == <<last.audit, last.section, last.question>>

\* p is n / d rounded to the nearest integer, ties to even
IsRounded(p, n, d) ==
    LET e == IF p * d >= n THEN p * d - n ELSE n - p * d
    IN  2 * e <= d /\ (2 * e = d => p % 2 = 0)

\* C1: in every reachable state an audit whose hasCriticalFailure is true
\* has grade 'F', whatever its totalPercentage is.
C1_CriticalForcesF ==
    \A a \in ExistingAudits : audits[a].hasCriticalFailure => audits[a].grade = "F"

\* a critical failure on an audit whose percentage alone would give a 'B'
C1_Witness ==
    \E a \in ExistingAudits :
        /\ audits[a].hasCriticalFailure
        /\ audits[a].totalPercentage >= 9000
        /\ audits[a].grade = "F"

\* C2: a save_response on a visible audit whose submitted score is above the
\* question's possible points is accepted and stores the possible points.
C2_OverCeilingClamped ==
    ( /\ last.op = "save_response"
      /\ audits[last.audit].exists
      /\ (IsAdmin(last.user) \/ AuditAuditor(last.audit) = last.user)
      /\ ~last.raw.nan
      /\ last.raw.v > QPossible(last.question) * 10 )
    => /\ last.success
       /\ responses[LastSlot].exists
       /\ responses[LastSlot].scoredPoints = QPossible(last.question)

\* an edit above the ceiling: the row had been answered before (its
\* corrective action exists) and now holds the possible points
C2_Witness ==
    /\ SavedOk
    /\ last.raw.v > QPossible(last.question) * 10
    /\ responses[LastSlot].scoredPoints = QPossible(last.question)
    /\ correctiveActions[LastSlot] # <<>>

\* C3: every stored response has 0 <= scoredPoints <= question.possiblePoints,
\* so no recomputation reads an out-of-range value.
C3_StoredInRange ==
    \A k \in ExistingResponses :
        /\ responses[k].scoredPoints >= 0
        /\ responses[k].scoredPoints <= QPossible(k[3])

\* a negative score was submitted and the row holds 0
C3_Witness ==
    /\ SavedOk
    /\ last.raw.v < 0
    /\ responses[LastSlot].exists
    /\ responses[LastSlot].scoredPoints = 0

\* C4: after every operation the stored scoredPoints and possiblePoints of
\* an AuditSection are the sums over its stored responses.
C4_SectionIsSum ==
    \A k \in ExistingSections :
        LET rs == {q \in Questions : responses[<<k[1], k[2], q>>].exists}
        IN  /\ auditSections[k].scoredPoints =
                 SumOver(rs, [q \in Questions |-> responses[<<k[1], k[2], q>>].scoredPoints])
            /\ auditSections[k].possiblePoints =
                 SumOver(rs, [q \in Questions |-> QPossible(q)])

\* a response was removed from a section that keeps a scored response
C4_Witness ==
    /\ last.op = "delete_response"
    /\ auditSections[<<last.audit, last.section>>].scoredPoints > 0
    /\ auditSections[<<last.audit, last.section>>].possiblePoints > 0

\* C5: a section's hasCriticalFailure is true iff one of its stored
\* responses answers a critical question with scoredPoints 0.
C5_SectionFlagIff ==
    \A k \in ExistingSections :
        auditSections[k].hasCriticalFailure <=>
            \E q \in Questions :
                /\ responses[<<k[1], k[2], q>>].exists
                /\ QCritical(q)
                /\ responses[<<k[1], k[2], q>>].scoredPoints = 0

\* the failing critical response (its corrective action exists) was saved
\* again with a positive score and the section flag is false
C5_Witness ==
    /\ SavedOk
    /\ QCritical(last.question)
    /\ correctiveActions[LastSlot] # <<>>
    /\ responses[LastSlot].scoredPoints > 0
    /\ ~auditSections[<<last.audit, last.section>>].hasCriticalFailure

\* C6: an audit's hasCriticalFailure is true iff one of its sections has
\* hasCriticalFailure true, i.e. iff one of its stored responses answers a
\* critical question with scoredPoints 0.
C6_AuditFlagIff ==
    \A a \in ExistingAudits :
        /\ audits[a].hasCriticalFailure <=>
              \E s \in Sections : /\ auditSections[<<a, s>>].exists
                                  /\ auditSections[<<a, s>>].hasCriticalFailure
        /\ audits[a].hasCriticalFailure <=>
              \E s \in Sections, q \in Questions :
                  /\ responses[<<a, s, q>>].exists
                  /\ QCritical(q)
                  /\ responses[<<a, s, q>>].scoredPoints = 0

\* a save left the audit flagged by one section while another section of
\* the audit is scored and not flagged
C6_Witness ==
    /\ SavedOk
    /\ audits[last.audit].hasCriticalFailure
    /\ \E s \in Sections : /\ auditSections[<<last.audit, s>>].exists
                           /\ ~auditSections[<<last.audit, s>>].hasCriticalFailure
                           /\ auditSections[<<last.audit, s>>].scoredPoints > 0

\* C7: sectionPercentage is scoredPoints / possiblePoints * 100 rounded to two
\* decimals when possiblePoints > 0 and 0 otherwise, with or without a
\* critical failure in the section.
C7_SectionPercentage ==
    \A k \in ExistingSections :
        IF auditSections[k].possiblePoints > 0
        THEN IsRounded(auditSections[k].sectionPercentage,
                       auditSections[k].scoredPoints * 10000,
                       auditSections[k].possiblePoints)
        ELSE auditSections[k].sectionPercentage = 0

\* a section with a critical failure whose percentage is a rounded,
\* non-zero value (5.00 of 6.00 points: 83.33)
C7_Witness ==
    \E k \in ExistingSections :
        /\ auditSections[k].hasCriticalFailure
        /\ auditSections[k].sectionPercentage > 0
        /\ (auditSections[k].scoredPoints * 10000) % auditSections[k].possiblePoints # 0

\* C8: totalScored and totalPossible are the sums over the audit's stored
\* AuditSections and totalPercentage is totalScored / totalPossible * 100
\* rounded to two decimals when totalPossible > 0, else 0.
C8_AuditTotals ==
    \A a \in ExistingAudits :
        LET secs == {s \in Sections : auditSections[<<a, s>>].exists}
        IN  /\ audits[a].totalScored =
                 SumOver(secs, [s \in Sections |-> auditSections[<<a, s>>].scoredPoints])
            /\ audits[a].totalPossible =
                 SumOver(secs, [s \in Sections |-> auditSections[<<a, s>>].possiblePoints])
            /\ IF audits[a].totalPossible > 0
               THEN IsRounded(audits[a].totalPercentage,
                              audits[a].totalScored * 10000,
                              audits[a].totalPossible)
               ELSE audits[a].totalPercentage = 0

\* an audit whose two sections both hold points and whose percentage is
\* rounded up (the discarded remainder is more than half)
C8_Witness ==
    \E a \in ExistingAudits :
        /\ \A s \in Sections : /\ auditSections[<<a, s>>].exists
                               /\ auditSections[<<a, s>>].scoredPoints > 0
        /\ 2 * ((audits[a].totalScored * 10000) % audits[a].totalPossible)
              > audits[a].totalPossible

\* C9: without critical failure the grade is 'A' from 96, 'B' from 90 to
\* below 96, 'C' from 80 to below 90 and 'F' below 80: 96.0 gives A, 95.9
\* and 90.0 give B, 89.9 and 80.0 give C, 79.9 gives F.
C9_GradeBuckets ==
    \A a \in ExistingAudits :
        ~audits[a].hasCriticalFailure =>
            LET pct == audits[a].totalPercentage
                g == audits[a].grade
            IN  /\ pct >= 9600 => g = "A"
                /\ (pct >= 9000 /\ pct < 9600) => g = "B"
                /\ (pct >= 8000 /\ pct < 9000) => g = "C"
                /\ pct < 8000 => g = "F"
                /\ pct = 9600 => g = "A"
                /\ pct \in {9590, 9000} => g = "B"
                /\ pct \in {8990, 8000} => g = "C"
                /\ pct = 7990 => g = "F"

\* the audit stands exactly on the lowest 'A' percentage, 96.0
C9_Witness ==
    /\ SavedOk
    /\ ~audits[last.audit].hasCriticalFailure
    /\ audits[last.audit].totalPercentage = 9600
    /\ audits[last.audit].grade = "A"

\* C10: every audit has totalScored >= 0, totalPossible >= 0 and
\* 0 <= totalPercentage <= 100, and totalPercentage 0 when totalPossible is 0.
C10_AuditRanges ==
    \A a \in ExistingAudits :
        /\ audits[a].totalScored >= 0
        /\ audits[a].totalPossible >= 0
        /\ audits[a].totalPercentage >= 0
        /\ audits[a].totalPercentage <= 10000
        /\ audits[a].totalPossible = 0 => audits[a].totalPercentage = 0

\* a score far above the ceiling was saved and the audit stands at 100 %
C10_Witness ==
    /\ SavedOk
    /\ last.raw.v > QPossible(last.question) * 10
    /\ audits[last.audit].totalPossible > 0
    /\ audits[last.audit].totalPercentage = 10000


\* a stored response that answers a critical question with scoredPoints 0
Failing(rs, k) == rs[k].exists /\ QCritical(k[3]) /\ rs[k].scoredPoints = 0

\* C11: the number of auto-created CorrectiveActions of a response is 0
\* until the first save that leaves its critical question with scoredPoints
\* 0, is 1 from that save on, and no later save adds or deletes one.
C11_OneActionPerFailure ==
    [][ last'.op = "save_response" =>
          \A k \in Slots :
              LET n == Len(correctiveActions[k])
                  m == Len(correctiveActions'[k])
              IN  /\ m <= 1
                  /\ m >= n
                  /\ Failing(responses', k) => m = 1
                  /\ (n = 0 /\ m = 1) =>
                        (Failing(responses', k)
                           /\ k = <<last'.audit, last'.section, last'.question>>)
      ]_vars

\* C12: after a save through save_response the stored needsCorrectiveAction
\* is true iff the question is critical and the persisted scoredPoints is 0.
C12_FlagIsDerived ==
    SavedOk =>
        (responses[LastSlot].needsCorrectiveAction <=> Failing(responses, LastSlot))

AuditQuestions(a) ==
    {k \in Sections \X Questions : auditSections[<<a, k[1]>>].exists
                                      /\ QSection(k[2]) = k[1]}

\* those of them whose response has a score above 0 or comments that are
\* not blank
AnsweredQuestions(a) ==
    {k \in AuditQuestions(a) :
        LET r == responses[<<a, k[1], k[2]>>]
        IN  r.exists /\ (r.scoredPoints > 0 \/ r.comments \notin {"", " "})}

C15_ProgressReadsOnly ==
    [][ last'.op = "audit_progress" =>
          UNCHANGED <<audits, auditSections, responses, correctiveActions>> ]_vars

\* progress was read for an audit with responses and a section still missing
C15_Witness ==
    /\ last.op = "audit_progress"
    /\ last.status = 200
    /\ get_progress_percentage(CurrentDb, last.audit) > 0
    /\ \E s \in Sections : ~auditSections[<<last.audit, s>>].exists

\* C16: submit of an audit that is already submitted or has progress 0 is
\* answered with an ordinary failure reply and changes no stored field.
C16_RejectedSubmit ==
    [][ ( /\ last'.op = "submit_audit"
          /\ AuditVisible(CurrentDb, last'.user, last'.audit)
          /\ \/ audits[last'.audit].isSubmitted
             \/ get_progress_percentage(CurrentDb, last'.audit) = 0 )
        => ( /\ ~last'.success
             /\ last'.status = 200
             /\ UNCHANGED <<audits, auditSections, responses, correctiveActions>> )
      ]_vars

\* a second submit was rejected and the audit keeps the first submittedAt
C16_Witness ==
    /\ last.op = "submit_audit"
    /\ ~last.success
    /\ last.status = 200
    /\ audits[last.audit].isSubmitted
    /\ audits[last.audit].submittedAt # 0
    /\ audits[last.audit].submittedAt < now

\* C17: once isSubmitted is true it stays true, and submittedAt is never
\* cleared or replaced.
C17_SubmittedForever ==
    [][ \A a \in Audits :
          audits[a].isSubmitted =>
              /\ audits'[a].isSubmitted
              /\ audits'[a].submittedAt = audits[a].submittedAt ]_vars

\* a submitted audit went through a later response save and a recalculation
C17_Witness ==
    /\ last.op \in {"save_response", "recalculate_all_audits"}
    /\ last.success
    /\ \E a \in Audits : /\ audits[a].isSubmitted
                         /\ audits[a].submittedAt # 0
                         /\ \E k \in ExistingResponses : k[1] = a


\* the audits submit may copy from when a is submitted: submitted, of the
\* same restaurant, dated strictly before a
EarlierSubmitted(a) ==
    {b \in Audits \ {a} : /\ audits[b].exists
                          /\ audits[b].isSubmitted
                          /\ AuditRestaurant(b) = AuditRestaurant(a)
                          /\ AuditDate(b) < AuditDate(a)}

\* C18: a successful submit of A leaves in A the date, totalPercentage and
\* auditor of the submitted audit of the same restaurant with the latest
\* auditDate strictly before A's; with no such audit the submit succeeds and
\* the three fields stay unset.
C18_PreviousSnapshot ==
    (last.op = "submit_audit" /\ last.success) =>
        LET a == last.audit
        IN  /\ audits[a].isSubmitted
            /\ IF EarlierSubmitted(a) = {}
               THEN /\ audits[a].previousAuditDate = 0
                    /\ audits[a].previousAuditScore = 0
                    /\ audits[a].previousAuditor = ""
               ELSE \E b \in EarlierSubmitted(a) :
                      /\ \A c \in EarlierSubmitted(a) : AuditDate(c) <= AuditDate(b)
                      /\ audits[a].previousAuditDate = AuditDate(b)
                      /\ audits[a].previousAuditScore = audits[b].totalPercentage
                      /\ audits[a].previousAuditor = AuditAuditor(b)

\* A3 submitted after A1, A2 (earlier), A4 (same date) and A5 (other
\* restaurant) were: it carries A2's date, 30.00 % and auditor
C18_Witness ==
    /\ last.op = "submit_audit" /\ last.success /\ last.audit = "A3"
    /\ \A b \in {"A1", "A2", "A4", "A5"} : audits[b].isSubmitted
    /\ audits["A3"].previousAuditDate = 2
    /\ audits["A3"].previousAuditScore = 3000
    /\ audits["A3"].previousAuditor = "bob"


\* C19: a submit during which the recomputation of the totals or the final
\* write of isSubmitted/submittedAt fails reports failure, and whenever a
\* submit reports failure the stored rows are what they were before it.
C19_SubmitAllOrNothing ==
    [][ last'.op \in SubmitFaults =>
          /\ last'.op # "submit_audit.previous_save" => ~last'.success
          /\ ~last'.success =>
                UNCHANGED <<audits, auditSections, responses, correctiveActions>>
      ]_vars

\* the final write failed for an answered audit that has an earlier
\* submitted audit to copy from: nothing of the copy or the flag is stored
C19_Witness ==
    /\ last.op = "submit_audit.final_save"
    /\ ~last.success
    /\ ~audits[last.audit].isSubmitted
    /\ get_progress_percentage(CurrentDb, last.audit) > 0
    /\ EarlierSubmitted(last.audit) # {}
    /\ audits[last.audit].previousAuditDate = 0


\* C20: when saves for different questions of one AuditSection run side by
\* side, after each commit the stored section fields and audit totals are
\* the values recomputed from all stored responses; none is left out.
C20_ConcurrentSavesAggregate ==
    last.op = "txn_commit" =>
        LET a == last.audit
            s == last.section
        IN  /\ auditSections[<<a, s>>] =
                   calculate_section_score(CurrentDb, a, s).auditSections[<<a, s>>]
            /\ audits[a] = calculate_totals(CurrentDb, a).audits[a]
            /\ auditSections[<<a, s>>].scoredPoints =
                   SumOver(ResponsesOf(CurrentDb, a, s),
                           [q \in Questions |-> responses[<<a, s, q>>].scoredPoints])

\* both responses are stored, and the worker that committed last had first
\* computed the section without the other's response
C20_Witness ==
    /\ last.op = "txn_commit"
    /\ \A w \in Workers : /\ txn[w].pc = "idle"
                          /\ responses[<<"A1", "S1", WorkerQuestion(w)>>].exists
    /\ \E w \in Workers :
          /\ WorkerQuestion(w) = last.question
          /\ txn[w].sec.possiblePoints < auditSections[<<"A1", "S1">>].possiblePoints


\* C23: save_response and submit for an audit that does not exist or that
\* the caller neither owns nor administers answer "not found" (404) and
\* change no stored record.
C23_NotFound ==
    [][ ( /\ last'.op \in {"save_response", "submit_audit"}
          /\ ~AuditVisible(CurrentDb, last'.user, last'.audit) )
        => ( /\ last'.status = 404
             /\ UNCHANGED <<audits, auditSections, responses, correctiveActions>> )
      ]_vars

\* the sum of a column over all stored responses of audit a
ResponseTotal(a, f) ==
    SumOver({k \in ExistingResponses : k[1] = a}, f)

\* C25: the audit totals left by a response save are those of section rows
\* that already include the response just saved.
C25_SectionBeforeAudit ==
    SavedOk =>
        LET a == last.audit
        IN  /\ audits[a].totalScored =
                  ResponseTotal(a, [k \in Slots |-> responses[k].scoredPoints])
            /\ audits[a].totalPossible =
                  ResponseTotal(a, [k \in Slots |-> QPossible(k[3])])
            /\ audits[a].hasCriticalFailure =
                  (\E k \in ExistingResponses : k[1] = a /\ Failing(responses, k))

\* a second response was saved and the totals are above those of the first
C25_Witness ==
    /\ SavedOk
    /\ responses[LastSlot].scoredPoints > 0
    /\ audits[last.audit].totalScored > responses[LastSlot].scoredPoints
    /\ audits[last.audit].totalPossible > QPossible(last.question)

\* the audits a recalculation has just gone through
Recalculated ==
    IF last.op # "recalculate" THEN {}
    ELSE IF last.audit = "-" THEN ExistingAudits ELSE {last.audit}

\* C26: recomputing an audit that has no AuditSections, or whose sections
\* have no responses, leaves totals 0, percentage 0, no critical failure
\* and grade 'F'.
C26_EmptyAuditTotals ==
    \A a \in Recalculated :
        (\A k \in ExistingResponses : k[1] # a) =>
            /\ audits[a].totalScored = 0
            /\ audits[a].totalPossible = 0
            /\ audits[a].totalPercentage = 0
            /\ ~audits[a].hasCriticalFailure
            /\ audits[a].grade = "F"

\* recalculate_all_audits went through an audit added without sections and
\* one created with sections and no responses
C26_Witness ==
    /\ last.op = "recalculate" /\ last.audit = "-"
    /\ \E a \in ExistingAudits : SectionsOf(CurrentDb, a) = {} /\ audits[a].grade = "F"
    /\ \E a \in ExistingAudits : /\ SectionsOf(CurrentDb, a) # {}
                                 /\ \A k \in ExistingResponses : k[1] # a

\* C27: a save_response on a submitted audit changes none of its totals,
\* grade and critical flag.
C27_SubmittedFrozen ==
    [][ (last'.op = "save_response" /\ audits[last'.audit].isSubmitted) =>
          LET old == audits[last'.audit]
              new == audits'[last'.audit]
          IN  /\ new.totalScored = old.totalScored
              /\ new.totalPossible = old.totalPossible
              /\ new.totalPercentage = old.totalPercentage
              /\ new.grade = old.grade
              /\ new.hasCriticalFailure = old.hasCriticalFailure ]_vars


\* the stored row of section s of audit a is what a recomputation from the
\* stored responses gives
SectionFresh(a, s) ==
    auditSections[<<a, s>>] =
        calculate_section_score(CurrentDb, a, s).auditSections[<<a, s>>]

\* C21: while a bulk recalculation is running no reader sees audit totals
\* that reflect the new values of only some sections: a step that changes
\* the stored totals leaves no section with values still to be recomputed.
C21_NoPartialAggregates ==
    [][ (last'.op = "recalculate_step" /\ audits'[last'.audit] # audits[last'.audit])
        => \A s \in Sections :
              auditSections'[<<last'.audit, s>>] =
                  calculate_section_score(
                      Db(audits', auditSections', responses', correctiveActions'),
                      last'.audit, s).auditSections[<<last'.audit, s>>]
      ]_vars

\* C24: recomputing a section or an audit a second time, with the stored
\* responses unchanged, leaves every aggregate as the first run left it.
C24_RecomputeIdempotent ==
    /\ last.op = "recalculate_step" =>
          /\ calculate_section_score(CurrentDb, last.audit, last.section) = CurrentDb
          /\ calculate_totals(CurrentDb, last.audit) = CurrentDb
    /\ last.op = "recalculate" =>
          /\ \A s \in SectionsOf(CurrentDb, last.audit) :
                calculate_section_score(CurrentDb, last.audit, s) = CurrentDb
          /\ calculate_totals(CurrentDb, last.audit) = CurrentDb

\* the first section was recomputed to non-zero sums while the second still
\* holds values typed on the admin site
C24_Witness ==
    /\ last.op = "recalculate_step"
    /\ auditSections[<<last.audit, "S1">>].possiblePoints > 0
    /\ auditSections[<<last.audit, "S1">>].scoredPoints > 0
    /\ ~SectionFresh(last.audit, "S2")


\* C22: a response save whose section or audit recomputation fails reports
\* failure, and no save reports success while a stored aggregate is stale
\* with respect to the stored responses.
C22_FailedRecomputeReported ==
    [][ /\ last'.op \in SaveFaults => ~last'.success
        /\ (last'.op \in SaveFaults \cup {"save_response"} /\ last'.success) =>
              \A s \in Sections :
                  auditSections'[<<last'.audit, s>>] =
                      calculate_section_score(
                          Db(audits', auditSections', responses', correctiveActions'),
                          last'.audit, s).auditSections[<<last'.audit, s>>]
      ]_vars


\* C28: the question of every stored response belongs to the section of the
\* audit section that holds it (one row per audit section and question), and
\* a save_response whose question is not in the given section stores nothing.
C28_ResponseQuestionInSection ==
    /\ \A k \in ExistingResponses : QSection(k[3]) = k[2]
    /\ (last.op = "save_response" /\ QSection(last.question) # last.section) =>
           ~responses[LastSlot].exists

\* C29: section progress and audit progress lie between 0 and 100: the
\* answered questions counted never exceed the questions of the section(s).
C29_ProgressBounded ==
    \A a \in ExistingAudits :
        /\ get_progress_percentage(CurrentDb, a) \in 0..10000
        /\ \A s \in SectionsOf(CurrentDb, a) :
               progress_percentage(CurrentDb, a, s) \in 0..10000

\* C30: the overall progress and the per-section percentage that
\* audit_progress computes from its own counts equal (to the two decimals
\* the model methods return) Audit.get_progress_percentage and
\* AuditSection.progress_percentage; a row with score 0 and empty comments
\* is unanswered in both.
C30_ProgressEndpointAgrees ==
    \A a \in ExistingAudits :
        LET res == audit_progress(CurrentDb, "bob", a)
        IN  /\ res.status = 200
            /\ IF res.total > 0
               THEN IsRounded(get_progress_percentage(CurrentDb, a),
                              res.answered * 10000, res.total)
               ELSE get_progress_percentage(CurrentDb, a) = 0
            /\ \A s \in SectionsOf(CurrentDb, a) :
                   IsRounded(progress_percentage(CurrentDb, a, s),
                             ViewAnswered(CurrentDb, a, s) * 10000,
                             Cardinality(QuestionsOf(s)))

====
